---- MODULE Spec2Model ----
EXTENDS Naturals, FiniteSets, Sequences, TLC

(***************************************************************************)
(* The Confirm operation of the payment pipeline                           *)
(* (crates/router/src/core/payments/operations/payment_confirm.rs):        *)
(* get_trackers (two batches of spawned tasks, the attempt-versioning      *)
(* step, the merge of the request into the working record) followed by     *)
(* update_trackers (the status transition and the three persist writes),   *)
(* with validate_request before them and get_connector and make_pm_data    *)
(* between them.                                                           *)
(* Every spawned task is a step of its own, so the tasks of a batch        *)
(* interleave with each other and with the tasks of a concurrent           *)
(* invocation; the store is the only state invocations share.              *)
(***************************************************************************)

VARIABLES
    payment_intent,    \* the stored intent row of the payment
    payment_attempts,  \* attempt id -> stored attempt row, or NoRow
    addresses,         \* the address rows of the store (by payload)
    configs,           \* the merchant-connector-credential config entries
    customer,          \* the stored customer row
    pc,                \* invocation -> position in the pipeline
    req,               \* invocation -> the request it was called with
    task,              \* invocation -> task -> idle | running | ok | notfound | error
    pd,                \* invocation -> working record (PaymentData)
    upd,               \* invocation -> inputs and patches of update_trackers
    res,               \* invocation -> results of get_trackers and update_trackers
    writes,            \* invocation -> store write -> times issued
    before,            \* invocation -> the stored intent and attempts when it started
    first_failed,      \* invocation -> batch -> the task of it that failed first
    faults,            \* store failures the environment may still inject
    users,             \* the user records of the store (by user id)
    user_roles,        \* the user-role rows of the store
    role_op,           \* the role operation in progress: inputs, position, result
    health             \* the deep health check in progress: locals, position, response

storeVars == <<payment_intent, payment_attempts, addresses, configs, customer>>
adminVars == <<users, user_roles, role_op, health>>
confirmVars == <<storeVars, pc, req, task, pd, upd, res, writes, before, first_failed>>
vars == <<payment_intent, payment_attempts, addresses, configs, customer,
          pc, req, task, pd, upd, res, writes, before, first_failed, faults,
          users, user_roles, role_op, health>>

None == "None"
NoRow == [status |-> "NoRow"]

\* Option::or
Or(a, b) == IF a # None THEN a ELSE b

----------------------------------------------------------------------------
(* Bounds *)

Invocations == {1, 2}
AttemptIds == 1 .. (1 + Cardinality(Invocations))
MaxFaults == 2

----------------------------------------------------------------------------
(* Enumerations *)

IntentStatuses ==
    {"RequiresPaymentMethod", "RequiresConfirmation", "RequiresCustomerAction",
     "RequiresMerchantAction", "RequiresCapture", "Processing", "Succeeded",
     "Failed", "Cancelled"}

\* the not-allowed list with RequiresMerchantAction forgotten
MutNotAllowedStatuses ==
    {"Cancelled", "Succeeded", "Processing", "RequiresCapture"}

\* the list handed to validate_payment_status_against_not_allowed_statuses
NotAllowedStatuses ==
    {"Cancelled", "Succeeded", "Processing", "RequiresCapture",
     "RequiresMerchantAction"}

\* the first arm with RequiresConfirmation forgotten
MutSameOldStatusesNarrow ==
    {"RequiresCustomerAction", "RequiresMerchantAction", "RequiresPaymentMethod"}

\* the first arm with Failed added
MutSameOldStatusesWide ==
    {"RequiresCustomerAction", "RequiresMerchantAction",
     "RequiresPaymentMethod", "RequiresConfirmation", "Failed"}

\* the statuses of the first arm of `match payment_intent.status`
SameOldStatuses ==
    {"RequiresCustomerAction", "RequiresMerchantAction",
     "RequiresPaymentMethod", "RequiresConfirmation"}

FrmSuggestions ==
    {None, "FrmCancelTransaction", "FrmManualReview", "FrmAuthorizeTransaction"}

\* the attempt status an intent of the given status is stored with
PriorAttemptStatus(s) ==
    CASE s = "RequiresPaymentMethod" -> "PaymentMethodAwaited"
      [] s = "RequiresConfirmation" -> "ConfirmationAwaited"
      [] s = "RequiresCustomerAction" -> "AuthenticationPending"
      [] s = "RequiresMerchantAction" -> "Unresolved"
      [] s = "RequiresCapture" -> "Authorized"
      [] s = "Processing" -> "Pending"
      [] s = "Succeeded" -> "Charged"
      [] s = "Failed" -> "Failure"
      [] OTHER -> "Voided"

\* optional fields get_trackers merges from the request into the intent
IntentMergeFields ==
    {"setup_future_usage", "return_url", "metadata", "order_details",
     "connector_metadata", "feature_metadata", "allowed_payment_method_types"}

\* optional fields get_trackers merges from the request into the attempt
AttemptMergeFields ==
    {"payment_method", "payment_method_type", "payment_experience",
     "capture_method", "browser_info", "business_sub_label"}

MergeFields == IntentMergeFields \cup AttemptMergeFields

\* the merged fields PaymentIntentUpdate::Update carries
IntentUpdateFields ==
    {"setup_future_usage", "return_url", "order_details", "metadata"}

\* ConfirmUpdate with payment_method forgotten
MutConfirmUpdateFields ==
    {"browser_info", "payment_method_type", "payment_experience",
     "business_sub_label"}

\* the merged fields PaymentAttemptUpdate::ConfirmUpdate carries
ConfirmUpdateFields ==
    {"payment_method", "browser_info", "payment_method_type",
     "payment_experience", "business_sub_label"}

Stage1Tasks == {"payment_intent_fut", "mandate_details_fut"}
Stage2Tasks ==
    {"payment_attempt_fut", "shipping_address_fut", "billing_address_fut",
     "config_update_fut", "connector_response_fut"}
PersistTasks == {"ut_payment_attempt_fut", "ut_payment_intent_fut", "customer_fut"}
Tasks == Stage1Tasks \cup Stage2Tasks \cup PersistTasks

WriteOps ==
    {"shipping_find_or_create", "billing_find_or_create", "config_upsert",
     "attempt_insert", "intent_attempt_update", "connector_response_insert",
     "attempt_update", "intent_update", "customer_update"}

----------------------------------------------------------------------------
(* Rows, requests and the initial states *)

\* an intent row whose optional fields all hold v
IntentRow(s, v) ==
    [status |-> s, active_attempt |-> 1, customer_id |-> None,
     shipping_address_id |-> "addr_old", billing_address_id |-> None,
     fields |-> [f \in IntentMergeFields |-> v]]

\* an attempt row whose optional fields all hold v
AttemptRow(id, s, v) ==
    [status |-> s, attempt_id |-> id,
     fields |-> [f \in AttemptMergeFields |-> v],
     error_code |-> v, error_message |-> v,
     payment_token |-> v, connector |-> v, mandate_details |-> v]

\* a request that supplies exactly the optional fields of `supplied`
Request(retry, mcd, addr, auth, valid, cust, supplied) ==
    [retry_action |-> retry, merchant_connector_details |-> mcd,
     address |-> addr, auth |-> auth, valid |-> valid, customer |-> cust,
     fields |-> [f \in MergeFields |-> IF f \in supplied THEN "new" ELSE None],
     routing |-> None, token |-> None, setup_mandate |-> NoRow, defects |-> {}]

\* the request that supplies nothing
PlainRequest == Request(None, FALSE, FALSE, "ok", TRUE, FALSE, {})

\* requests that vary the control inputs and supply no optional field
ControlRequests ==
    {Request(r, m, a, au, v, c, {}) :
        r \in {None, "ManualRetry"}, m \in BOOLEAN, a \in BOOLEAN,
        au \in {"ok", "access", "secret"}, v \in BOOLEAN, c \in BOOLEAN}

\* requests that supply one optional field, or all of them
MergeRequests ==
    {Request(None, FALSE, FALSE, "ok", TRUE, FALSE, S) :
        S \in {{f} : f \in MergeFields} \cup {MergeFields}}

RetryRequest == Request("ManualRetry", FALSE, FALSE, "ok", TRUE, FALSE, {})

\* the request with retry_action Requeue
RequeueRequest == Request("Requeue", FALSE, FALSE, "ok", TRUE, FALSE, {})

\* the request with a routing override
RoutingRequest == [PlainRequest EXCEPT !.routing = "override"]

\* the request with a payment token
TokenRequest == [PlainRequest EXCEPT !.token = "tok"]

\* the request with a shipping and a billing address
AddressRequest == Request(None, FALSE, TRUE, "ok", TRUE, FALSE, {})

\* requests with a payment method that set a mandate up, with a mandate type
\* of their own or without
MandateRequests ==
    {[Request(None, FALSE, FALSE, "ok", TRUE, FALSE, {"payment_method"})
        EXCEPT !.setup_mandate = [mandate_type |-> m]] : m \in {None, "new"}}

\* what validate_request looks at, in the order it looks
RequestChecks ==
    <<"customer_details", "payment_id", "merchant_id", "payment_method_fields",
      "mandate">>

RequestDefects == {RequestChecks[n] : n \in DOMAIN RequestChecks}

\* requests validate_request refuses: with one defect, or with all of them
DefectiveRequests ==
    {[PlainRequest EXCEPT !.defects = D] :
        D \in {{d} : d \in RequestDefects} \cup {RequestDefects}}

EmptyPd ==
    [payment_intent |-> NoRow, payment_attempt |-> NoRow,
     shipping_address |-> None, billing_address |-> None,
     attempt_type |-> None, connector_response |-> NoRow,
     connector_choice |-> None, setup_mandate |-> NoRow]

EmptyUpd ==
    [frm_suggestion |-> None, frm_message |-> FALSE, updated_customer |-> FALSE,
     attempt_patch |-> NoRow, intent_patch |-> NoRow,
     payment_intent |-> NoRow, payment_attempt |-> NoRow]

NoResult ==
    [validate_request |-> "none", get_trackers |-> "none",
     get_connector |-> "none", make_pm_data |-> "none",
     update_trackers |-> "none", requeue |-> FALSE]

Batches == {"stage1", "stage2", "persist"}

----------------------------------------------------------------------------
(* Role operations (crates/router/src/core/user_role.rs) and the deep      *)
(* health check of the drainer (crates/drainer/src/health_check.rs):       *)
(* their data                                                              *)

UserIds == {"u1", "u2"}
MerchantIds == {"m1", "m2"}
RoleIds == {"org_admin", "merchant_view_only"}

\* a user-role row
UserRole(u, m, r, by) ==
    [user_id |-> u, merchant_id |-> m, role_id |-> r, last_modified_by |-> by]

\* the tables of user-role rows with at most one row for a user and a merchant
UserRoleTables ==
    { {UserRole(k[1], k[2], f[k], "created") : k \in {x \in DOMAIN f : f[x] # None}} :
        f \in [UserIds \X MerchantIds -> RoleIds \cup {None}] }

\* the email of a user stands for the user; one address is no email
Emails == UserIds \cup {"not_an_email"}

\* auth::UserFromToken
UserFromToken(u, m) == [user_id |-> u, merchant_id |-> m]

\* no role operation has been called
NoRoleOp ==
    [op |-> "none", pc |-> "off", user_from_token |-> UserFromToken(None, None),
     user_id |-> None, email |-> None, role_id |-> None,
     user_from_db |-> None, user_roles |-> {}, result |-> "none",
     before |-> [users |-> {}, user_roles |-> {}]]

\* update_user_role(state, user_from_token, req) about to run
UpdateCall(t, u, r, us, rs) ==
    [NoRoleOp EXCEPT !.op = "update_user_role", !.pc = "start",
                     !.user_from_token = t, !.user_id = u, !.role_id = r,
                     !.before = [users |-> us, user_roles |-> rs]]

\* delete_user_role(state, user_from_token, request) about to run
DeleteCall(t, e, us, rs) ==
    [NoRoleOp EXCEPT !.op = "delete_user_role", !.pc = "start",
                     !.user_from_token = t, !.email = e,
                     !.before = [users |-> us, user_roles |-> rs]]

HealthCheckDBError ==
    {"DBError", "DBWriteError", "DBReadError", "DBDeleteError", "UnknownError",
     "TransactionError"}

HealthCheckRedisError ==
    {"SetFailed", "GetFailed", "DeleteFailed", "StreamAppendFailed",
     "StreamReadFailed", "StreamTrimFailed"}

\* deep_health_check has not been called
NoHealthCheck ==
    [pc |-> "off", status_code |-> 0, db_result |-> None, db_status |-> None,
     redis_result |-> None, redis_status |-> None, response |-> NoRow]

\* the role operations and the health check stay out of the run
AdminIdle ==
    /\ users = {}
    /\ user_roles = {}
    /\ role_op = NoRoleOp
    /\ health = NoHealthCheck

\* the states in which the invocations of `active` are about to run, each with
\* a request of `requests`, on an intent of a status of `statuses` whose
\* optional fields hold a value of `stored`
InitWith(active, statuses, requests, stored, budget) ==
    /\ \E s \in statuses, v \in stored :
        /\ payment_intent = IntentRow(s, v)
        /\ payment_attempts =
             [a \in AttemptIds |->
                IF a = 1 THEN AttemptRow(1, PriorAttemptStatus(s), v) ELSE NoRow]
    /\ addresses = {"addr_old"}
    /\ configs = {}
    /\ customer = [exists |-> TRUE, updated |-> FALSE]
    /\ pc = [i \in Invocations |-> IF i \in active THEN "start" ELSE "off"]
    /\ \E r \in [active -> requests] :
        req = [i \in Invocations |-> IF i \in active THEN r[i] ELSE PlainRequest]
    /\ task = [i \in Invocations |-> [t \in Tasks |-> "idle"]]
    /\ pd = [i \in Invocations |-> EmptyPd]
    /\ upd = [i \in Invocations |-> EmptyUpd]
    /\ res = [i \in Invocations |-> NoResult]
    /\ writes = [i \in Invocations |-> [w \in WriteOps |-> 0]]
    /\ before = [i \in Invocations |->
                   [payment_intent |-> payment_intent,
                    payment_attempts |-> payment_attempts]]
    /\ first_failed = [i \in Invocations |-> [b \in Batches |-> None]]
    /\ faults = budget

\* one invocation, on every intent status, with store failures
Init ==
    /\ \/ InitWith({1}, IntentStatuses, ControlRequests, {"old"}, MaxFaults)
       \/ InitWith({1}, IntentStatuses, MergeRequests, {"old", None}, MaxFaults)
       \/ InitWith({1}, {"RequiresPaymentMethod", "Failed"},
                   {RequeueRequest, RoutingRequest, TokenRequest}
                       \cup MandateRequests \cup DefectiveRequests,
                   {"old", None}, MaxFaults)
    /\ AdminIdle

\* two invocations on the same payment, every store call succeeding
InitConc ==
    /\ \/ InitWith(Invocations, {"RequiresConfirmation"}, {AddressRequest}, {"old"}, 0)
       \/ InitWith(Invocations, {"Failed"}, {RetryRequest}, {"old"}, 0)
    /\ AdminIdle

----------------------------------------------------------------------------
(* Store calls: outcomes and bookkeeping *)

\* what a store call may answer: success, or one of `kinds` while the
\* environment still has failures to inject
Outcomes(kinds) == {"ok"} \cup (IF faults > 0 THEN kinds ELSE {})

Spend(o) == faults' = IF o = "ok" THEN faults ELSE faults - 1

Issue(i, w) == writes' = [writes EXCEPT ![i][w] = @ + 1]

Completed(i, ts) == \A t \in ts : task[i][t] # "running"

\* the batch a task is joined with
BatchOf(t) ==
    IF t \in Stage1Tasks THEN "stage1"
    ELSE IF t \in Stage2Tasks THEN "stage2" ELSE "persist"

\* the task completes with outcome o; the first failure of its batch is kept
SetTask(i, t, o) ==
    /\ task' = [task EXCEPT ![i][t] = o]
    /\ first_failed' =
         IF o # "ok" /\ first_failed[i][BatchOf(t)] = None
         THEN [first_failed EXCEPT ![i][BatchOf(t)] = t]
         ELSE first_failed

\* to_not_found_response(PaymentNotFound): not-found becomes PaymentNotFound,
\* every other store error InternalServerError
ToNotFoundResponse(o) ==
    IF o = "notfound" THEN "PaymentNotFound" ELSE "InternalServerError"

Fail(i, stage, e) ==
    /\ pc' = [pc EXCEPT ![i] = "done"]
    /\ res' = [res EXCEPT ![i][stage] = e]

----------------------------------------------------------------------------
(* validate_request *)

\* the error of each check of validate_request
ValidationError(d) ==
    CASE d = "customer_details" -> "InvalidCustomerDetails"
      [] d = "payment_id" -> "PaymentNotFound"
      [] d = "merchant_id" -> "InvalidDataFormat"
      [] d = "payment_method_fields" -> "MissingPaymentMethodFields"
      [] OTHER -> "InvalidMandate"

\* the first check, in the order of the checks, that the request fails
FirstDefect(defects) ==
    RequestChecks[CHOOSE n \in DOMAIN RequestChecks :
        /\ RequestChecks[n] \in defects
        /\ \A m \in 1 .. (n - 1) : RequestChecks[m] \notin defects]

\* the flag raised by every retry action
MutRequeue(r) == r.retry_action # None

\* matches!(request.retry_action, Some(RetryAction::Requeue))
Requeue(r) == r.retry_action = "Requeue"

\* validate_request with a store write of its own
MutValidateRequest(i) ==
    /\ pc[i] = "start"
    /\ IF req[i].defects # {}
       THEN Fail(i, "validate_request", ValidationError(FirstDefect(req[i].defects)))
       ELSE /\ pc' = [pc EXCEPT ![i] = "validated"]
            /\ res' = [res EXCEPT ![i].validate_request = "ok",
                                  ![i].requeue = Requeue(req[i])]
    /\ Issue(i, "customer_update")
    /\ UNCHANGED <<storeVars, req, task, pd, upd, before, first_failed, faults>>

\* a synchronous function of the request and the merchant account: it is
\* handed no store and spawns nothing
ValidateRequest(i) ==
    /\ pc[i] = "start"
    /\ IF req[i].defects # {}
       THEN Fail(i, "validate_request", ValidationError(FirstDefect(req[i].defects)))
       ELSE /\ pc' = [pc EXCEPT ![i] = "validated"]
            /\ res' = [res EXCEPT ![i].validate_request = "ok",
                                  ![i].requeue = Requeue(req[i])]
    /\ UNCHANGED <<storeVars, req, task, pd, upd, writes, before, first_failed,
                   faults>>

----------------------------------------------------------------------------
(* get_trackers, stage 1: the intent find and the mandate/token resolution *)

GetTrackersStart(i) ==
    /\ pc[i] = "validated"
    /\ pc' = [pc EXCEPT ![i] = "stage1"]
    /\ task' = [task EXCEPT ![i] =
                  [t \in Tasks |-> IF t \in Stage1Tasks THEN "running" ELSE @[t]]]
    /\ before' = [before EXCEPT ![i] =
                    [payment_intent |-> payment_intent,
                     payment_attempts |-> payment_attempts]]
    /\ UNCHANGED <<storeVars, req, pd, upd, res, writes, faults, first_failed>>

\* find_payment_intent_by_payment_id_merchant_id
PaymentIntentFut(i) ==
    /\ task[i]["payment_intent_fut"] = "running"
    /\ \E o \in Outcomes({"notfound", "error"}) :
        /\ SetTask(i, "payment_intent_fut", o)
        /\ Spend(o)
        /\ pd' = IF o = "ok"
                 THEN [pd EXCEPT ![i].payment_intent = payment_intent]
                 ELSE pd
    /\ UNCHANGED <<storeVars, pc, req, upd, res, writes, before>>

\* helpers::get_token_pm_type_mandate_details: reads only
MandateDetailsFut(i) ==
    /\ task[i]["mandate_details_fut"] = "running"
    /\ \E o \in Outcomes({"error"}) :
        /\ SetTask(i, "mandate_details_fut", o)
        /\ Spend(o)
    /\ UNCHANGED <<storeVars, pc, req, pd, upd, res, writes, before>>

\* the tasks spawned for stage 2 on an intent of status s: the
\* connector-response lookup is spawned in the SameOld arm only
Stage2Spawned(s) ==
    {"payment_attempt_fut", "shipping_address_fut", "billing_address_fut",
     "config_update_fut"}
    \cup (IF s \in SameOldStatuses THEN {"connector_response_fut"} ELSE {})

\* the intent find mapped by to_not_found_response
MutStage1ResultToNotFound(i) ==
    IF task[i]["payment_intent_fut"] # "ok"
        THEN ToNotFoundResponse(task[i]["payment_intent_fut"])
    ELSE IF task[i]["mandate_details_fut"] # "ok" THEN "MandateError"
    ELSE IF req[i].auth = "access" THEN "Unauthorized"
    ELSE IF pd[i].payment_intent.status \in NotAllowedStatuses
        THEN "NotAllowedInCurrentState"
    ELSE IF req[i].auth = "secret" THEN "ClientSecretInvalid"
    ELSE "ok"

\* the checks after the stage-1 join with the client-secret check left out
MutStage1Result(i) ==
    IF task[i]["payment_intent_fut"] # "ok" THEN "PaymentNotFound"
    ELSE IF task[i]["mandate_details_fut"] # "ok" THEN "MandateError"
    ELSE IF req[i].auth = "access" THEN "Unauthorized"
    ELSE IF pd[i].payment_intent.status \in NotAllowedStatuses
        THEN "NotAllowedInCurrentState"
    ELSE "ok"

\* what the code between the stage-1 join and the stage-2 spawns returns
Stage1Result(i) ==
    IF task[i]["payment_intent_fut"] # "ok" THEN "PaymentNotFound"
    ELSE IF task[i]["mandate_details_fut"] # "ok" THEN "MandateError"
    ELSE IF req[i].auth = "access" THEN "Unauthorized"
    ELSE IF pd[i].payment_intent.status \in NotAllowedStatuses
        THEN "NotAllowedInCurrentState"
    ELSE IF req[i].auth = "secret" THEN "ClientSecretInvalid"
    ELSE "ok"

JoinStage1(i) ==
    /\ pc[i] = "stage1"
    /\ Completed(i, Stage1Tasks)
    /\ IF Stage1Result(i) # "ok"
       THEN /\ Fail(i, "get_trackers", Stage1Result(i))
            /\ UNCHANGED <<task, pd>>
       ELSE /\ pc' = [pc EXCEPT ![i] = "stage2"]
            /\ task' = [task EXCEPT ![i] =
                  [t \in Tasks |->
                     IF t \in Stage2Spawned(pd[i].payment_intent.status)
                     THEN "running" ELSE @[t]]]
            /\ pd' = [pd EXCEPT ![i].attempt_type =
                        IF pd[i].payment_intent.status \in SameOldStatuses
                        THEN "SameOld" ELSE @]
            /\ UNCHANGED res
    /\ UNCHANGED <<storeVars, req, upd, writes, before, faults, first_failed>>

----------------------------------------------------------------------------
(* get_trackers, stage 2: attempt find, the two address resolutions, the    *)
(* config upsert and, in the SameOld arm, the connector-response lookup     *)

\* find_payment_attempt_by_payment_id_merchant_id_attempt_id, for the
\* active attempt of the intent that stage 1 fetched
PaymentAttemptFut(i) ==
    /\ task[i]["payment_attempt_fut"] = "running"
    /\ LET row == payment_attempts[pd[i].payment_intent.active_attempt] IN
       \E o \in (IF row = NoRow THEN {"notfound"}
                 ELSE Outcomes({"notfound", "error"})) :
        /\ SetTask(i, "payment_attempt_fut", o)
        /\ Spend(o)
        /\ pd' = IF o = "ok" THEN [pd EXCEPT ![i].payment_attempt = row] ELSE pd
    /\ UNCHANGED <<storeVars, pc, req, upd, res, writes, before>>

\* the address find-or-create answers the row of the request's payload,
\* created when the store holds none, or else the row the intent refers to
AddressId(supplied, existing, payload) == IF supplied THEN payload ELSE existing

AddressRows(supplied, payload) ==
    IF supplied THEN addresses \cup {payload} ELSE addresses

\* create_or_find_address_for_payment_by_request, as one task of stage 2
AddressFut(i, t, w, existing, payload, slot) ==
    /\ task[i][t] = "running"
    /\ IF req[i].address \/ existing # None
       THEN Issue(i, w)
       ELSE UNCHANGED writes
    /\ \E o \in (IF req[i].address \/ existing # None
                 THEN Outcomes({"error"}) ELSE {"ok"}) :
        /\ SetTask(i, t, o)
        /\ Spend(o)
        /\ IF o = "ok"
           THEN /\ addresses' = AddressRows(req[i].address, payload)
                /\ pd' = [pd EXCEPT ![i][slot] =
                            AddressId(req[i].address, existing, payload)]
           ELSE UNCHANGED <<addresses, pd>>
    /\ UNCHANGED <<payment_intent, payment_attempts, configs, customer,
                   pc, req, upd, res, before>>

\* a resolution that takes the payload of each invocation for a new one
MutShippingAddressFut(i) ==
    AddressFut(i, "shipping_address_fut", "shipping_find_or_create",
               pd[i].payment_intent.shipping_address_id,
               IF i = 1 THEN "ship_new" ELSE "ship_dup",
               "shipping_address")

ShippingAddressFut(i) ==
    AddressFut(i, "shipping_address_fut", "shipping_find_or_create",
               pd[i].payment_intent.shipping_address_id, "ship_new",
               "shipping_address")

BillingAddressFut(i) ==
    AddressFut(i, "billing_address_fut", "billing_find_or_create",
               pd[i].payment_intent.billing_address_id, "bill_new",
               "billing_address")

\* the upsert issued whatever the request carries
MutConfigUpdateFut(i) ==
    /\ task[i]["config_update_fut"] = "running"
    /\ Issue(i, "config_upsert")
    /\ \E o \in Outcomes({"error"}) :
        /\ SetTask(i, "config_update_fut", o)
        /\ Spend(o)
        /\ configs' = IF o = "ok" THEN configs \cup {"creds"} ELSE configs
    /\ UNCHANGED <<payment_intent, payment_attempts, addresses, customer,
                   pc, req, pd, upd, res, before>>

\* insert_merchant_connector_creds_to_config, called only when the request
\* carries merchant_connector_details (async_map over the Option)
ConfigUpdateFut(i) ==
    /\ task[i]["config_update_fut"] = "running"
    /\ IF req[i].merchant_connector_details
       THEN /\ Issue(i, "config_upsert")
            /\ \E o \in Outcomes({"error"}) :
                /\ SetTask(i, "config_update_fut", o)
                /\ Spend(o)
                /\ configs' = IF o = "ok" THEN configs \cup {"creds"} ELSE configs
       ELSE /\ SetTask(i, "config_update_fut", "ok")
            /\ UNCHANGED <<configs, writes, faults>>
    /\ UNCHANGED <<payment_intent, payment_attempts, addresses, customer,
                   pc, req, pd, upd, res, before>>

\* the attempt wrongly taken to be the one after the active attempt
MutConnectorResponseAttemptId(i) == pd[i].payment_intent.active_attempt + 1

\* the attempt id the lookup of the first arm is given
ConnectorResponseAttemptId(i) == pd[i].payment_intent.active_attempt

\* AttemptType::SameOld.get_connector_response: a lookup
ConnectorResponseFut(i) ==
    /\ task[i]["connector_response_fut"] = "running"
    /\ \E o \in Outcomes({"error"}) :
        /\ SetTask(i, "connector_response_fut", o)
        /\ Spend(o)
        /\ pd' = IF o = "ok"
                 THEN [pd EXCEPT ![i].connector_response =
                         [attempt_id |-> ConnectorResponseAttemptId(i)]]
                 ELSE pd
    /\ UNCHANGED <<storeVars, pc, req, upd, res, writes, before>>

\* the task results the code unwraps with `?` after the stage-2 join, in the
\* order it unwraps them: config_update_fut is bound to `_` in both arms
Stage2Unwrapped(s) ==
    <<"payment_attempt_fut", "shipping_address_fut", "billing_address_fut">>
    \o (IF s \in SameOldStatuses THEN <<"connector_response_fut">> ELSE <<>>)

\* the error a failed task's result carries
TaskError(i, t) ==
    CASE t = "payment_attempt_fut" -> ToNotFoundResponse(task[i][t])
      [] t = "shipping_address_fut" -> "ShippingAddressError"
      [] t = "billing_address_fut" -> "BillingAddressError"
      [] t = "connector_response_fut" -> "ConnectorResponseError"
      [] t = "config_update_fut" -> "ConfigError"
      [] OTHER -> ToNotFoundResponse(task[i][t])

\* the first error in the sequence of unwrapped results, or "ok"
FirstError(i, ts) ==
    IF \A n \in DOMAIN ts : task[i][ts[n]] = "ok" THEN "ok"
    ELSE LET n == CHOOSE m \in DOMAIN ts :
                    /\ task[i][ts[m]] # "ok"
                    /\ \A k \in 1 .. (m - 1) : task[i][ts[k]] = "ok"
         IN TaskError(i, ts[n])

Stage2Result(i) == FirstError(i, Stage2Unwrapped(pd[i].payment_intent.status))

\* a join that takes back the config entry and the addresses on failure
MutJoinStage2(i) ==
    /\ pc[i] = "stage2"
    /\ Completed(i, Stage2Tasks)
    /\ IF Stage2Result(i) # "ok"
       THEN /\ Fail(i, "get_trackers", Stage2Result(i))
            /\ configs' = {}
            /\ addresses' = {"addr_old"}
       ELSE /\ pc' = [pc EXCEPT ![i] =
                        IF pd[i].payment_intent.status \in SameOldStatuses
                        THEN "merge" ELSE "versioning"]
            /\ UNCHANGED <<res, configs, addresses>>
    /\ UNCHANGED <<payment_intent, payment_attempts, customer, req, task, pd,
                   upd, writes, before, faults, first_failed>>

JoinStage2(i) ==
    /\ pc[i] = "stage2"
    /\ Completed(i, Stage2Tasks)
    /\ IF Stage2Result(i) # "ok"
       THEN Fail(i, "get_trackers", Stage2Result(i))
       ELSE /\ pc' = [pc EXCEPT ![i] =
                        IF pd[i].payment_intent.status \in SameOldStatuses
                        THEN "merge" ELSE "versioning"]
            /\ UNCHANGED res
    /\ UNCHANGED <<storeVars, req, task, pd, upd, writes, before, faults, first_failed>>

----------------------------------------------------------------------------
(* get_trackers, the second arm: attempt versioning *)

\* a policy that opens a new attempt whatever the request says
MutAttemptType(i) == "New"

\* helpers::get_attempt_type: a new attempt on an explicit manual retry,
\* otherwise the existing attempt
AttemptType(i) ==
    IF req[i].retry_action = "ManualRetry" THEN "New" ELSE "SameOld"

NewAttemptId == CHOOSE a \in AttemptIds :
    /\ payment_attempts[a] = NoRow
    /\ \A b \in AttemptIds : b < a => payment_attempts[b] # NoRow

\* the row of a new attempt: started afresh, for the payment token of the
\* attempt it follows
NewAttempt(id, old) ==
    [AttemptRow(id, "Started", None) EXCEPT !.payment_token = old.payment_token]

\* modify_payment_intent_and_payment_attempt, first store call: the insert of
\* the new attempt
AttemptVersioning(i) ==
    /\ pc[i] = "versioning"
    /\ IF AttemptType(i) = "New"
       THEN /\ Issue(i, "attempt_insert")
            /\ \E o \in Outcomes({"error"}) :
                /\ Spend(o)
                /\ IF o = "ok"
                   THEN LET row == NewAttempt(NewAttemptId, pd[i].payment_attempt) IN
                        /\ payment_attempts' =
                             [payment_attempts EXCEPT ![NewAttemptId] = row]
                        /\ pd' = [pd EXCEPT ![i].payment_attempt = row,
                                            ![i].attempt_type = "New"]
                        /\ pc' = [pc EXCEPT ![i] = "new_intent"]
                        /\ UNCHANGED res
                   ELSE /\ Fail(i, "get_trackers", "InternalServerError")
                        /\ pd' = [pd EXCEPT ![i].attempt_type = "New"]
                        /\ UNCHANGED payment_attempts
       ELSE /\ pc' = [pc EXCEPT ![i] = "connresp"]
            /\ pd' = [pd EXCEPT ![i].attempt_type = "SameOld"]
            /\ UNCHANGED <<payment_attempts, res, writes, faults>>
    /\ UNCHANGED <<payment_intent, addresses, configs, customer,
                   req, task, upd, before, first_failed>>

\* the intent pointed at the attempt after the new one
MutActiveAttemptUpdate(i) ==
    /\ pc[i] = "new_intent"
    /\ Issue(i, "intent_attempt_update")
    /\ \E o \in Outcomes({"error"}) :
        /\ Spend(o)
        /\ IF o = "ok"
           THEN LET row == [payment_intent EXCEPT
                              !.active_attempt = pd[i].payment_attempt.attempt_id + 1]
                IN /\ payment_intent' = row
                   /\ pd' = [pd EXCEPT ![i].payment_intent = row]
                   /\ pc' = [pc EXCEPT ![i] = "connresp"]
                   /\ UNCHANGED res
           ELSE /\ Fail(i, "get_trackers", "InternalServerError")
                /\ UNCHANGED <<payment_intent, pd>>
    /\ UNCHANGED <<payment_attempts, addresses, configs, customer,
                   req, task, upd, before, first_failed>>

\* modify_payment_intent_and_payment_attempt, second store call: the intent
\* is pointed at the new attempt
ActiveAttemptUpdate(i) ==
    /\ pc[i] = "new_intent"
    /\ Issue(i, "intent_attempt_update")
    /\ \E o \in Outcomes({"error"}) :
        /\ Spend(o)
        /\ IF o = "ok"
           THEN LET row == [payment_intent EXCEPT
                              !.active_attempt = pd[i].payment_attempt.attempt_id]
                IN /\ payment_intent' = row
                   /\ pd' = [pd EXCEPT ![i].payment_intent = row]
                   /\ pc' = [pc EXCEPT ![i] = "connresp"]
                   /\ UNCHANGED res
           ELSE /\ Fail(i, "get_trackers", "InternalServerError")
                /\ UNCHANGED <<payment_intent, pd>>
    /\ UNCHANGED <<payment_attempts, addresses, configs, customer,
                   req, task, upd, before, first_failed>>

\* get_or_insert_connector_response: an insert for a new attempt, a lookup
\* for the existing one
GetOrInsertConnectorResponse(i) ==
    /\ pc[i] = "connresp"
    /\ IF AttemptType(i) = "New"
       THEN Issue(i, "connector_response_insert")
       ELSE UNCHANGED writes
    /\ \E o \in Outcomes({"error"}) :
        /\ Spend(o)
        /\ IF o = "ok"
           THEN /\ pc' = [pc EXCEPT ![i] = "merge"]
                /\ pd' = [pd EXCEPT ![i].connector_response =
                            [attempt_id |-> pd[i].payment_attempt.attempt_id]]
                /\ UNCHANGED res
           ELSE /\ Fail(i, "get_trackers", "ConnectorResponseError")
                /\ UNCHANGED pd
    /\ UNCHANGED <<storeVars, req, task, upd, before, first_failed>>

----------------------------------------------------------------------------
(* get_trackers, the merge of the request into the working record *)

\* request.field.or(payment_intent.field), and the resolved address ids
MergedIntent(i) ==
    [pd[i].payment_intent EXCEPT
        !.fields = [f \in IntentMergeFields |-> Or(req[i].fields[f], @[f])],
        !.shipping_address_id = pd[i].shipping_address,
        !.billing_address_id = pd[i].billing_address]

\* request.field.or(payment_attempt.field)
MergedAttempt(i) ==
    [pd[i].payment_attempt EXCEPT
        !.fields = [f \in AttemptMergeFields |-> Or(req[i].fields[f], @[f])]]

\* the merge with the mandate type of the request first
MutSetupMandate(i) ==
    IF req[i].setup_mandate = NoRow THEN NoRow
    ELSE [mandate_type |->
            Or(req[i].setup_mandate.mandate_type,
               pd[i].payment_attempt.mandate_details)]

\* setup_mandate.map(|sm| sm.mandate_type =
\*     payment_attempt.mandate_details.or(sm.mandate_type))
SetupMandate(i) ==
    IF req[i].setup_mandate = NoRow THEN NoRow
    ELSE [mandate_type |->
            Or(pd[i].payment_attempt.mandate_details,
               req[i].setup_mandate.mandate_type)]

\* token.or_else(|| payment_attempt.payment_token)
Token(i) == Or(req[i].token, pd[i].payment_attempt.payment_token)

\* helpers::validate_pm_or_token_given: the request names a payment method,
\* or there is a token
PmOrTokenGiven(i) == req[i].fields["payment_method"] # None \/ Token(i) # None

\* the request checks with validate_pm_or_token_given left out
MutRequestChecksResult(i) ==
    IF ~req[i].valid THEN "InvalidRequestData" ELSE "ok"

\* what the request checks between the versioning step and the return of
\* get_trackers answer: validate_card_data, then validate_pm_or_token_given
RequestChecksResult(i) ==
    IF ~req[i].valid THEN "InvalidRequestData"
    ELSE IF ~PmOrTokenGiven(i) THEN "PmOrTokenNotGiven"
    ELSE "ok"

\* the merges and the request checks after the versioning step, up to the
\* return of get_trackers
GetTrackersFinish(i) ==
    /\ pc[i] = "merge"
    /\ IF RequestChecksResult(i) = "ok"
       THEN /\ pd' = [pd EXCEPT ![i].payment_intent = MergedIntent(i),
                                ![i].payment_attempt = MergedAttempt(i),
                                ![i].setup_mandate = SetupMandate(i)]
            /\ res' = [res EXCEPT ![i].get_trackers = "ok"]
            /\ pc' = [pc EXCEPT ![i] = "got"]
       ELSE /\ Fail(i, "get_trackers", RequestChecksResult(i))
            /\ UNCHANGED pd
    /\ UNCHANGED <<storeVars, req, task, upd, writes, before, faults, first_failed>>

----------------------------------------------------------------------------
(* get_connector and make_pm_data *)

\* helpers::get_connector_default(state, request.routing): the routing of
\* the request, or else the merchant's routing algorithm
GetConnectorDefault(routing) == Or(routing, "routing_algorithm")

\* get_connector: _payment_intent is not looked at
GetConnector(i) ==
    /\ pc[i] = "got"
    /\ pd' = [pd EXCEPT ![i].connector_choice = GetConnectorDefault(req[i].routing)]
    /\ res' = [res EXCEPT ![i].get_connector = "ok"]
    /\ pc' = [pc EXCEPT ![i] = "connector"]
    /\ UNCHANGED <<storeVars, req, task, upd, writes, before, first_failed,
                   faults>>

\* make_pm_data: helpers::make_pm_data answers the payment method data of
\* the request, or else what the token resolves to, which may be nothing;
\* without payment method data it fails with PaymentMethodNotFound
MakePmData(i) ==
    /\ pc[i] = "connector"
    /\ \E o \in (IF req[i].fields["payment_method"] # None
                 THEN {"ok"} ELSE Outcomes({"notfound"})) :
        /\ Spend(o)
        /\ IF o = "ok"
           THEN /\ pc' = [pc EXCEPT ![i] = "enriched"]
                /\ res' = [res EXCEPT ![i].make_pm_data = "ok"]
           ELSE Fail(i, "make_pm_data", "PaymentMethodNotFound")
    /\ UNCHANGED <<storeVars, req, task, pd, upd, writes, before, first_failed>>

----------------------------------------------------------------------------
(* update_trackers: the status transition and the persist writes *)

\* the match with the manual-review arm leaving the attempt Pending
MutStatusPair(frm) ==
    CASE frm = "FrmCancelTransaction" -> [intent |-> "Failed", attempt |-> "Failure"]
      [] frm = "FrmManualReview" ->
            [intent |-> "RequiresMerchantAction", attempt |-> "Pending"]
      [] OTHER -> [intent |-> "Processing", attempt |-> "Pending"]

\* the `match frm_suggestion` of update_trackers
StatusPair(frm) ==
    CASE frm = "FrmCancelTransaction" -> [intent |-> "Failed", attempt |-> "Failure"]
      [] frm = "FrmManualReview" ->
            [intent |-> "RequiresMerchantAction", attempt |-> "Unresolved"]
      [] OTHER -> [intent |-> "Processing", attempt |-> "Pending"]

\* the error fields set on manual review as well
MutErrorPatch(frm, msg) ==
    IF frm \in {"FrmCancelTransaction", "FrmManualReview"} /\ msg
    THEN [code |-> "frm_status", message |-> "frm_reason"]
    ELSE [code |-> "Keep", message |-> "Keep"]

\* (error_code, error_message) of the same match: set from the fraud message
\* on cancel, and otherwise (None, None), which leaves the stored fields
ErrorPatch(frm, msg) ==
    IF frm = "FrmCancelTransaction" /\ msg
    THEN [code |-> "frm_status", message |-> "frm_reason"]
    ELSE [code |-> "Keep", message |-> "Keep"]

\* PaymentAttemptUpdate::ConfirmUpdate as update_trackers fills it
AttemptPatch(i, frm, msg) ==
    [status |-> StatusPair(frm).attempt,
     fields |-> [f \in ConfirmUpdateFields |-> pd[i].payment_attempt.fields[f]],
     error_code |-> ErrorPatch(frm, msg).code,
     error_message |-> ErrorPatch(frm, msg).message]

\* PaymentIntentUpdate::Update as update_trackers fills it
IntentPatch(i, frm) ==
    [status |-> StatusPair(frm).intent,
     fields |-> [f \in IntentUpdateFields |-> pd[i].payment_intent.fields[f]],
     customer_id |-> IF req[i].customer THEN "cust" ELSE None,
     shipping_address_id |-> pd[i].payment_intent.shipping_address_id,
     billing_address_id |-> pd[i].payment_intent.billing_address_id]

\* the store's update of an attempt row: the patch's status, and each
\* optional value the patch carries
ApplyAttemptPatch(row, p) ==
    [row EXCEPT
        !.status = p.status,
        !.fields = [f \in AttemptMergeFields |->
                      IF f \in DOMAIN p.fields THEN Or(p.fields[f], @[f]) ELSE @[f]],
        !.error_code = IF p.error_code = "Keep" THEN @ ELSE p.error_code,
        !.error_message = IF p.error_message = "Keep" THEN @ ELSE p.error_message]

\* the store's update of the intent row
ApplyIntentPatch(row, p) ==
    [row EXCEPT
        !.status = p.status,
        !.fields = [f \in IntentMergeFields |->
                      IF f \in DOMAIN p.fields THEN Or(p.fields[f], @[f]) ELSE @[f]],
        !.customer_id = Or(p.customer_id, @),
        !.shipping_address_id = Or(p.shipping_address_id, @),
        !.billing_address_id = Or(p.billing_address_id, @)]

\* the customer update spawned for every customer
MutCustomerUpdateIssued(i) == req[i].customer

\* the customer update is spawned for Some((updated_customer, customer))
CustomerUpdateIssued(i) == req[i].customer /\ upd[i].updated_customer

\* update_trackers up to the three spawns; frm_suggestion, the fraud message
\* of the working record and updated_customer are its inputs
UpdateTrackersStart(i) ==
    /\ pc[i] = "enriched"
    /\ \E frm \in FrmSuggestions, msg \in BOOLEAN, uc \in BOOLEAN :
        upd' = [upd EXCEPT ![i] =
                  [@ EXCEPT !.frm_suggestion = frm, !.frm_message = msg,
                            !.updated_customer = uc,
                            !.attempt_patch = AttemptPatch(i, frm, msg),
                            !.intent_patch = IntentPatch(i, frm)]]
    /\ task' = [task EXCEPT ![i] =
                  [t \in Tasks |-> IF t \in PersistTasks THEN "running" ELSE @[t]]]
    /\ pc' = [pc EXCEPT ![i] = "persist"]
    /\ UNCHANGED <<storeVars, req, pd, res, writes, before, faults, first_failed>>

\* update_payment_attempt_with_attempt_id(payment_data.payment_attempt, ConfirmUpdate)
UtPaymentAttemptFut(i) ==
    /\ task[i]["ut_payment_attempt_fut"] = "running"
    /\ Issue(i, "attempt_update")
    /\ LET id == pd[i].payment_attempt.attempt_id IN
       \E o \in Outcomes({"notfound", "error"}) :
        /\ SetTask(i, "ut_payment_attempt_fut", o)
        /\ Spend(o)
        /\ IF o = "ok"
           THEN LET row == ApplyAttemptPatch(payment_attempts[id], upd[i].attempt_patch)
                IN /\ payment_attempts' = [payment_attempts EXCEPT ![id] = row]
                   /\ upd' = [upd EXCEPT ![i].payment_attempt = row]
           ELSE UNCHANGED <<payment_attempts, upd>>
    /\ UNCHANGED <<payment_intent, addresses, configs, customer,
                   pc, req, pd, res, before>>

\* the intent update issued again after it failed
MutUtPaymentIntentFut(i) ==
    /\ task[i]["ut_payment_intent_fut"] = "running"
    /\ Issue(i, "intent_update")
    /\ \E o \in Outcomes({"notfound", "error"}) :
        /\ SetTask(i, "ut_payment_intent_fut", IF o = "ok" THEN "ok" ELSE "running")
        /\ Spend(o)
        /\ IF o = "ok"
           THEN LET row == ApplyIntentPatch(payment_intent, upd[i].intent_patch)
                IN /\ payment_intent' = row
                   /\ upd' = [upd EXCEPT ![i].payment_intent = row]
           ELSE UNCHANGED <<payment_intent, upd>>
    /\ UNCHANGED <<payment_attempts, addresses, configs, customer,
                   pc, req, pd, res, before>>

\* update_payment_intent(payment_data.payment_intent, Update)
UtPaymentIntentFut(i) ==
    /\ task[i]["ut_payment_intent_fut"] = "running"
    /\ Issue(i, "intent_update")
    /\ \E o \in Outcomes({"notfound", "error"}) :
        /\ SetTask(i, "ut_payment_intent_fut", o)
        /\ Spend(o)
        /\ IF o = "ok"
           THEN LET row == ApplyIntentPatch(payment_intent, upd[i].intent_patch)
                IN /\ payment_intent' = row
                   /\ upd' = [upd EXCEPT ![i].payment_intent = row]
           ELSE UNCHANGED <<payment_intent, upd>>
    /\ UNCHANGED <<payment_attempts, addresses, configs, customer,
                   pc, req, pd, res, before>>

\* update_customer_by_customer_id_merchant_id, or the task that only answers
\* Ok(()) when there is no customer or no customer patch
CustomerFut(i) ==
    /\ task[i]["customer_fut"] = "running"
    /\ IF CustomerUpdateIssued(i)
       THEN /\ Issue(i, "customer_update")
            /\ \E o \in Outcomes({"notfound", "error"}) :
                /\ SetTask(i, "customer_fut", o)
                /\ Spend(o)
                /\ customer' = IF o = "ok"
                               THEN [customer EXCEPT !.updated = TRUE]
                               ELSE customer
       ELSE /\ SetTask(i, "customer_fut", "ok")
            /\ UNCHANGED <<customer, writes, faults>>
    /\ UNCHANGED <<payment_intent, payment_attempts, addresses, configs,
                   pc, req, pd, upd, res, before>>

\* the results update_trackers unwraps with `?` after the join, in order:
\* the customer task's result is bound to `_`
PersistUnwrapped == <<"ut_payment_intent_fut", "ut_payment_attempt_fut">>

PersistResult(i) == FirstError(i, PersistUnwrapped)

\* a join that waits until every task of the batch has succeeded
MutJoinPersist(i) ==
    /\ pc[i] = "persist"
    /\ \A t \in PersistTasks : task[i][t] \in {"idle", "ok"}
    /\ IF PersistResult(i) # "ok"
       THEN /\ Fail(i, "update_trackers", PersistResult(i))
            /\ UNCHANGED pd
       ELSE /\ pd' = [pd EXCEPT ![i].payment_intent = upd[i].payment_intent,
                                ![i].payment_attempt = upd[i].payment_attempt]
            /\ res' = [res EXCEPT ![i].update_trackers = "ok"]
            /\ pc' = [pc EXCEPT ![i] = "done"]
    /\ UNCHANGED <<storeVars, req, task, upd, writes, before, faults, first_failed>>

JoinPersist(i) ==
    /\ pc[i] = "persist"
    /\ Completed(i, PersistTasks)
    /\ IF PersistResult(i) # "ok"
       THEN /\ Fail(i, "update_trackers", PersistResult(i))
            /\ UNCHANGED pd
       ELSE /\ pd' = [pd EXCEPT ![i].payment_intent = upd[i].payment_intent,
                                ![i].payment_attempt = upd[i].payment_attempt]
            /\ res' = [res EXCEPT ![i].update_trackers = "ok"]
            /\ pc' = [pc EXCEPT ![i] = "done"]
    /\ UNCHANGED <<storeVars, req, task, upd, writes, before, faults, first_failed>>

----------------------------------------------------------------------------
(* update_user_role and delete_user_role *)

\* utils::user_role::validate_role_id: the role ids a user may be given
ValidRoleIds == {"merchant_view_only"}

\* utils::user::validate_deletion_permission_for_role_id: the role ids whose
\* holders may not be deleted
UndeletableRoleIds == {"org_admin"}

\* the operation returns e
RoleReturn(e) == role_op' = [role_op EXCEPT !.pc = "done", !.result = e]

\* the rows of user u, and the one of them for merchant m
RolesOfUser(u) == {r \in user_roles : r.user_id = u}
RoleOfUserAt(u, m) == {r \in RolesOfUser(u) : r.merchant_id = m}

\* UserRoleUpdate::UpdateRole { role_id, modified_by } applied to a row
UpdateRole(row, role_id, modified_by) ==
    [row EXCEPT !.role_id = role_id, !.last_modified_by = modified_by]

\* an update_user_role that does not compare the caller with the target
MutUpdateUserRole ==
    /\ role_op.op = "update_user_role"
    /\ role_op.pc = "start"
    /\ IF role_op.role_id \notin ValidRoleIds
       THEN RoleReturn("InvalidRoleId") /\ UNCHANGED <<user_roles, faults>>
       ELSE \E o \in Outcomes({"error"}) :
              LET rows == RoleOfUserAt(role_op.user_id,
                                       role_op.user_from_token.merchant_id)
              IN /\ Spend(o)
                 /\ IF o = "error"
                    THEN RoleReturn("InternalServerError") /\ UNCHANGED user_roles
                    ELSE IF rows = {}
                    THEN RoleReturn("InvalidRoleOperation") /\ UNCHANGED user_roles
                    ELSE /\ user_roles' =
                              (user_roles \ rows) \cup
                              {UpdateRole(r, role_op.role_id,
                                          role_op.user_from_token.user_id) : r \in rows}
                         /\ RoleReturn("ok")
    /\ UNCHANGED <<confirmVars, users, health>>

\* update_user_role: the role id is validated, then the caller is compared
\* with the target, then the one store call is made; not-found becomes
\* InvalidRoleOperation and every other store error InternalServerError
UpdateUserRole ==
    /\ role_op.op = "update_user_role"
    /\ role_op.pc = "start"
    /\ IF role_op.role_id \notin ValidRoleIds
       THEN RoleReturn("InvalidRoleId") /\ UNCHANGED <<user_roles, faults>>
       ELSE IF role_op.user_from_token.user_id = role_op.user_id
       THEN RoleReturn("InvalidRoleOperation") /\ UNCHANGED <<user_roles, faults>>
       ELSE \E o \in Outcomes({"error"}) :
              LET rows == RoleOfUserAt(role_op.user_id,
                                       role_op.user_from_token.merchant_id)
              IN /\ Spend(o)
                 /\ IF o = "error"
                    THEN RoleReturn("InternalServerError") /\ UNCHANGED user_roles
                    ELSE IF rows = {}
                    THEN RoleReturn("InvalidRoleOperation") /\ UNCHANGED user_roles
                    ELSE /\ user_roles' =
                              (user_roles \ rows) \cup
                              {UpdateRole(r, role_op.role_id,
                                          role_op.user_from_token.user_id) : r \in rows}
                         /\ RoleReturn("ok")
    /\ UNCHANGED <<confirmVars, users, health>>

\* delete_user_role, to the comparison of the caller with the user found:
\* the email is parsed, the user is looked up by it (not-found becomes
\* InvalidRoleOperation), and a caller who is that user is refused
FindUserByEmail ==
    /\ role_op.op = "delete_user_role"
    /\ role_op.pc = "start"
    /\ IF role_op.email \notin UserIds
       THEN RoleReturn("EmailParsingError") /\ UNCHANGED faults
       ELSE \E o \in Outcomes({"error"}) :
              /\ Spend(o)
              /\ IF o = "error"
                 THEN RoleReturn("InternalServerError")
                 ELSE IF role_op.email \notin users
                 THEN RoleReturn("InvalidRoleOperation")
                 ELSE IF role_op.email = role_op.user_from_token.user_id
                 THEN role_op' = [role_op EXCEPT !.user_from_db = role_op.email,
                                                 !.pc = "done",
                                                 !.result = "InvalidDeleteOperation"]
                 ELSE role_op' = [role_op EXCEPT !.user_from_db = role_op.email,
                                                 !.pc = "found"]
    /\ UNCHANGED <<confirmVars, users, user_roles, health>>

\* delete_user_role, from the listing of the user's roles to the choice of
\* the branch: the user must hold a role for the caller's merchant, and that
\* role must be one that may be deleted
ListUserRolesByUserId ==
    /\ role_op.op = "delete_user_role"
    /\ role_op.pc = "found"
    /\ \E o \in Outcomes({"error"}) :
        LET rows == RolesOfUser(role_op.user_from_db)
            mine == RoleOfUserAt(role_op.user_from_db,
                                 role_op.user_from_token.merchant_id)
        IN /\ Spend(o)
           /\ IF o = "error"
              THEN RoleReturn("InternalServerError")
              ELSE IF mine = {}
              THEN RoleReturn("InvalidDeleteOperation")
              ELSE IF \E r \in mine : r.role_id \in UndeletableRoleIds
              THEN RoleReturn("DeletionNotPermitted")
              ELSE role_op' = [role_op EXCEPT
                                 !.user_roles = rows,
                                 !.pc = IF Cardinality(rows) > 1
                                        THEN "delete_role" ELSE "delete_user"]
    /\ UNCHANGED <<confirmVars, users, user_roles, health>>

\* the second branch, its first store call: the user record is deleted
DeleteUserByUserId ==
    /\ role_op.op = "delete_user_role"
    /\ role_op.pc = "delete_user"
    /\ \E o \in Outcomes({"error"}) :
        /\ Spend(o)
        /\ IF o = "error"
           THEN RoleReturn("InternalServerError") /\ UNCHANGED users
           ELSE /\ users' = users \ {role_op.user_from_db}
                /\ role_op' = [role_op EXCEPT !.pc = "delete_last_role"]
    /\ UNCHANGED <<confirmVars, user_roles, health>>

\* the last store call of either branch: the role row for the caller's
\* merchant is deleted
DeleteUserRoleByUserIdMerchantId ==
    /\ role_op.op = "delete_user_role"
    /\ role_op.pc \in {"delete_role", "delete_last_role"}
    /\ \E o \in Outcomes({"error"}) :
        /\ Spend(o)
        /\ IF o = "error"
           THEN RoleReturn("InternalServerError") /\ UNCHANGED user_roles
           ELSE /\ user_roles' =
                     user_roles \ RoleOfUserAt(role_op.user_from_db,
                                               role_op.user_from_token.merchant_id)
                /\ RoleReturn("ok")
    /\ UNCHANGED <<confirmVars, users, health>>

----------------------------------------------------------------------------
(* deep_health_check *)

\* err.to_string() of a HealthCheckDBError
DbErrorString(e) ==
    CASE e = "DBError" -> "Error while connecting to database"
      [] e = "DBWriteError" -> "Error while writing to database"
      [] e = "DBReadError" -> "Error while reading element in the database"
      [] e = "DBDeleteError" -> "Error while deleting element in the database"
      [] e = "UnknownError" -> "Unpredictable error occurred"
      [] e = "TransactionError" -> "Error in database transaction"

\* err.to_string() of a HealthCheckRedisError
RedisErrorString(e) ==
    CASE e = "SetFailed" -> "Failed to set key value in Redis"
      [] e = "GetFailed" -> "Failed to get key value in Redis"
      [] e = "DeleteFailed" -> "Failed to delete key value in Redis"
      [] e = "StreamAppendFailed" -> "Failed to append data to the stream in Redis"
      [] e = "StreamReadFailed" -> "Failed to read data from the stream in Redis"
      [] e = "StreamTrimFailed" -> "Failed to trim data from the stream in Redis"

\* let mut status_code = 200
DeepHealthCheckStart ==
    /\ health.pc = "called"
    /\ health' = [health EXCEPT !.status_code = 200, !.pc = "db"]
    /\ UNCHANGED <<confirmVars, faults, users, user_roles, role_op>>

\* store.health_check_db().await and the match on its result
HealthCheckDb ==
    /\ health.pc = "db"
    /\ \E o \in {"ok"} \cup HealthCheckDBError :
        health' = [health EXCEPT
                     !.db_result = o,
                     !.db_status = IF o = "ok" THEN "Health is good"
                                   ELSE DbErrorString(o),
                     !.status_code = IF o = "ok" THEN @ ELSE 500,
                     !.pc = "redis"]
    /\ UNCHANGED <<confirmVars, faults, users, user_roles, role_op>>

\* a Redis check whose success arm sets the status code as well
MutHealthCheckRedis ==
    /\ health.pc = "redis"
    /\ \E o \in {"ok"} \cup HealthCheckRedisError :
        health' = [health EXCEPT
                     !.redis_result = o,
                     !.redis_status = IF o = "ok" THEN "Health is good"
                                      ELSE RedisErrorString(o),
                     !.status_code = IF o = "ok" THEN 200 ELSE 500,
                     !.pc = "respond"]
    /\ UNCHANGED <<confirmVars, faults, users, user_roles, role_op>>

\* store.health_check_redis(&conf).await and the match on its result
HealthCheckRedis ==
    /\ health.pc = "redis"
    /\ \E o \in {"ok"} \cup HealthCheckRedisError :
        health' = [health EXCEPT
                     !.redis_result = o,
                     !.redis_status = IF o = "ok" THEN "Health is good"
                                      ELSE RedisErrorString(o),
                     !.status_code = IF o = "ok" THEN @ ELSE 500,
                     !.pc = "respond"]
    /\ UNCHANGED <<confirmVars, faults, users, user_roles, role_op>>

\* the response: Ok on status code 200, InternalServerError otherwise, with
\* the two status strings as its body
HealthResponse ==
    /\ health.pc = "respond"
    /\ health' = [health EXCEPT
                    !.response = [status |-> IF health.status_code = 200
                                             THEN 200 ELSE 500,
                                  database |-> health.db_status,
                                  redis |-> health.redis_status],
                    !.pc = "done"]
    /\ UNCHANGED <<confirmVars, faults, users, user_roles, role_op>>

----------------------------------------------------------------------------
(* Specifications *)

Step(i) ==
    \/ ValidateRequest(i) /\ UNCHANGED adminVars
    \/ GetTrackersStart(i) /\ UNCHANGED adminVars
    \/ PaymentIntentFut(i) /\ UNCHANGED adminVars
    \/ MandateDetailsFut(i) /\ UNCHANGED adminVars
    \/ JoinStage1(i) /\ UNCHANGED adminVars
    \/ PaymentAttemptFut(i) /\ UNCHANGED adminVars
    \/ ShippingAddressFut(i) /\ UNCHANGED adminVars
    \/ BillingAddressFut(i) /\ UNCHANGED adminVars
    \/ ConfigUpdateFut(i) /\ UNCHANGED adminVars
    \/ ConnectorResponseFut(i) /\ UNCHANGED adminVars
    \/ JoinStage2(i) /\ UNCHANGED adminVars
    \/ AttemptVersioning(i) /\ UNCHANGED adminVars
    \/ ActiveAttemptUpdate(i) /\ UNCHANGED adminVars
    \/ GetOrInsertConnectorResponse(i) /\ UNCHANGED adminVars
    \/ GetTrackersFinish(i) /\ UNCHANGED adminVars
    \/ GetConnector(i) /\ UNCHANGED adminVars
    \/ MakePmData(i) /\ UNCHANGED adminVars
    \/ UpdateTrackersStart(i) /\ UNCHANGED adminVars
    \/ UtPaymentAttemptFut(i) /\ UNCHANGED adminVars
    \/ UtPaymentIntentFut(i) /\ UNCHANGED adminVars
    \/ CustomerFut(i) /\ UNCHANGED adminVars
    \/ JoinPersist(i) /\ UNCHANGED adminVars

Next == \E i \in Invocations : Step(i)

Spec == Init /\ [][Next]_vars

SpecConc == InitConc /\ [][Next]_vars

\* every store call and every spawned task eventually returns, and the
\* runtime keeps polling the invocation: a step an invocation can take is
\* eventually taken
\* requests that make every task of every batch run, with and without the
\* retry signal, and one request validate_request refuses
LiveRequests ==
    {Request(r, TRUE, TRUE, "ok", TRUE, TRUE, {}) : r \in {None, "ManualRetry"}}
    \cup {[PlainRequest EXCEPT !.defects = {"payment_id"}]}

\* one invocation, on an intent of either arm or of a not-allowed status,
\* with store failures
InitLive ==
    /\ InitWith({1}, {"RequiresConfirmation", "Failed", "Succeeded"},
                LiveRequests, {"old"}, MaxFaults)
    /\ AdminIdle

SpecLive == InitLive /\ [][Next]_vars /\ \A i \in Invocations : WF_vars(Step(i))

\* no Confirm invocation runs
ConfirmIdle == InitWith({}, {"RequiresConfirmation"}, {PlainRequest}, {"old"}, MaxFaults)

\* one role operation, by any caller on any target, on any store in which
\* every user-role row refers to a user record
InitRoles ==
    /\ ConfirmIdle
    /\ users \in SUBSET UserIds
    /\ user_roles \in UserRoleTables
    /\ \A r \in user_roles : r.user_id \in users
    /\ \E u \in UserIds, m \in MerchantIds :
        \/ \E target \in UserIds, r \in RoleIds :
             role_op = UpdateCall(UserFromToken(u, m), target, r, users, user_roles)
        \/ \E e \in Emails :
             role_op = DeleteCall(UserFromToken(u, m), e, users, user_roles)
    /\ health = NoHealthCheck

NextRoles ==
    \/ UpdateUserRole
    \/ FindUserByEmail
    \/ ListUserRolesByUserId
    \/ DeleteUserByUserId
    \/ DeleteUserRoleByUserIdMerchantId

SpecRoles == InitRoles /\ [][NextRoles]_vars

\* one call of the deep health check
InitHealth ==
    /\ ConfirmIdle
    /\ users = {}
    /\ user_roles = {}
    /\ role_op = NoRoleOp
    /\ health = [NoHealthCheck EXCEPT !.pc = "called"]

NextHealth ==
    \/ DeepHealthCheckStart
    \/ HealthCheckDb
    \/ HealthCheckRedis
    \/ HealthResponse

SpecHealth == InitHealth /\ [][NextHealth]_vars

----------------------------------------------------------------------------
(* Properties *)

Finished(i) == pc[i] = "done"

Succeeded(i) == Finished(i) /\ res[i].update_trackers = "ok"

NoWrites(i) == \A w \in WriteOps : writes[i][w] = 0

Failed(i, t) == task[i][t] \in {"notfound", "error"}

\* the stored statuses of the intent and of its active attempt
StoredPair ==
    <<payment_intent.status, payment_attempts[payment_intent.active_attempt].status>>

LegalPairs ==
    {<<"Failed", "Failure">>, <<"RequiresMerchantAction", "Unresolved">>,
     <<"Processing", "Pending">>}

ExpectedPair(frm) ==
    IF frm = "FrmCancelTransaction" THEN <<"Failed", "Failure">>
    ELSE IF frm = "FrmManualReview" THEN <<"RequiresMerchantAction", "Unresolved">>
    ELSE <<"Processing", "Pending">>

C1_Statuses ==
    {"Cancelled", "Succeeded", "Processing", "RequiresCapture",
     "RequiresMerchantAction"}

(* C1, as stated: on an intent stored with status Cancelled, Succeeded,     *)
(* Processing, RequiresCapture or RequiresMerchantAction, Confirm fails    *)
(* with NotAllowedInCurrentState and issues no store write.                *)
C1_Original ==
    \A i \in Invocations :
        (Finished(i) /\ before[i].payment_intent.status \in C1_Statuses)
        => /\ res[i].get_trackers = "NotAllowedInCurrentState"
           /\ NoWrites(i)

(* C1, amended: on such an intent get_trackers never spawns a stage-2 or   *)
(* persist task and issues no store write, it fails, and its error is      *)
(* NotAllowedInCurrentState whenever the intent find, the mandate/token    *)
(* resolution and the customer-access check, which all come before the     *)
(* status check, have succeeded.                                           *)
C1_NotAllowedStatusFailsWithoutWrites ==
    \A i \in Invocations :
        (pc[i] # "off" /\ before[i].payment_intent.status \in C1_Statuses)
        => /\ NoWrites(i)
           /\ \A t \in Stage2Tasks \cup PersistTasks : task[i][t] = "idle"
           /\ res[i].get_trackers # "ok"
           /\ res[i].update_trackers = "none"
           /\ Finished(i) =>
                /\ res[i].get_trackers # "none"
                /\ ( /\ task[i]["payment_intent_fut"] = "ok"
                     /\ task[i]["mandate_details_fut"] = "ok"
                     /\ req[i].auth # "access" )
                   => res[i].get_trackers = "NotAllowedInCurrentState"

\* a request with addresses and inline credentials, refused on a Succeeded intent
C1_Witness ==
    \E i \in Invocations :
        /\ Finished(i)
        /\ before[i].payment_intent.status = "Succeeded"
        /\ req[i].address /\ req[i].merchant_connector_details
        /\ res[i].get_trackers = "NotAllowedInCurrentState"

(* C2: the patches update_trackers builds carry the status pair of its     *)
(* fraud suggestion, (Failed, Failure) on cancel, (RequiresMerchantAction, *)
(* Unresolved) on manual review, (Processing, Pending) otherwise, and a    *)
(* persist write that succeeded stored the status of that pair.            *)
C2_StatusPairFromFrmSuggestion ==
    \A i \in Invocations :
        upd[i].attempt_patch # NoRow
        => LET want == ExpectedPair(upd[i].frm_suggestion) IN
           /\ <<upd[i].intent_patch.status, upd[i].attempt_patch.status>> = want
           /\ task[i]["ut_payment_intent_fut"] = "ok"
                => payment_intent.status = want[1]
           /\ task[i]["ut_payment_attempt_fut"] = "ok"
                => payment_attempts[pd[i].payment_attempt.attempt_id].status = want[2]

C2_Witness ==
    \E i \in Invocations :
        /\ Succeeded(i)
        /\ upd[i].frm_suggestion = "FrmManualReview"
        /\ StoredPair = <<"RequiresMerchantAction", "Unresolved">>

(* C3, as stated: once the persist stage has committed a write and         *)
(* returned, also when one of the attempt update and the intent update     *)
(* failed, the stored (intent status, attempt status) is a legal pair.     *)
C3_Original ==
    \A i \in Invocations :
        ( /\ Finished(i)
          /\ \/ task[i]["ut_payment_attempt_fut"] = "ok"
             \/ task[i]["ut_payment_intent_fut"] = "ok" )
        => StoredPair \in LegalPairs

(* C4, as stated: when two concurrent invocations on the same payment have *)
(* both finished and a confirmation went through, the stored (intent       *)
(* status, attempt status) is a legal pair.                                *)
C4_Original ==
    ( /\ \A i \in Invocations : Finished(i)
      /\ \E i \in Invocations : res[i].update_trackers = "ok" )
    => StoredPair \in LegalPairs

C5_Statuses ==
    {"RequiresCustomerAction", "RequiresPaymentMethod", "RequiresConfirmation"}

\* the attempt rows the store holds
ExistingAttempts(rows) == {a \in AttemptIds : rows[a] # NoRow}

\* the invocation took the SameOld arm and kept the attempt it found
SameOldPath(i) ==
    /\ task[i]["connector_response_fut"] = "ok"
    /\ pd[i].payment_attempt.attempt_id = before[i].payment_intent.active_attempt
    /\ payment_intent.active_attempt = before[i].payment_intent.active_attempt
    /\ ExistingAttempts(payment_attempts) = ExistingAttempts(before[i].payment_attempts)
    /\ writes[i]["attempt_insert"] = 0
    /\ writes[i]["connector_response_insert"] = 0

(* C5: a successful confirmation of an intent in RequiresCustomerAction,   *)
(* RequiresPaymentMethod or RequiresConfirmation, requested without a      *)
(* retry signal, took the SameOld arm: the working record's attempt id and *)
(* the intent's active attempt are the ones from before, and no attempt    *)
(* row was created.                                                        *)
C5_SameOldKeepsAttempt ==
    \A i \in Invocations :
        ( /\ Succeeded(i)
          /\ before[i].payment_intent.status \in C5_Statuses
          /\ req[i].retry_action # "ManualRetry" )
        => SameOldPath(i)

C5_Witness ==
    \E i \in Invocations :
        /\ Succeeded(i)
        /\ before[i].payment_intent.status = "RequiresConfirmation"
        /\ req[i].retry_action = None
        /\ pd[i].payment_attempt.attempt_id = 1

(* C6, as stated: a successful confirmation whose request carries the      *)
(* retry signal ends on an attempt id other than the intent's active       *)
(* attempt before it, for every confirmable status.                        *)
C6_Original ==
    \A i \in Invocations :
        (Succeeded(i) /\ req[i].retry_action = "ManualRetry")
        => pd[i].payment_attempt.attempt_id
             # before[i].payment_intent.active_attempt

(* C6, amended: with the retry signal, a successful confirmation of an     *)
(* intent in RequiresCustomerAction, RequiresPaymentMethod or              *)
(* RequiresConfirmation keeps the attempt (the SameOld arm does not look   *)
(* at the request); of an intent in any other confirmable status it ends   *)
(* on a new attempt row, which the intent then points at.                  *)
C6_RetrySignalNewAttemptOutsideSameOld ==
    \A i \in Invocations :
        (Succeeded(i) /\ req[i].retry_action = "ManualRetry")
        => IF before[i].payment_intent.status \in C5_Statuses
           THEN SameOldPath(i)
           ELSE LET id == pd[i].payment_attempt.attempt_id IN
                /\ id # before[i].payment_intent.active_attempt
                /\ before[i].payment_attempts[id] = NoRow
                /\ payment_attempts[id] # NoRow
                /\ payment_intent.active_attempt = id

C6_Witness ==
    \E i \in Invocations :
        /\ Succeeded(i)
        /\ req[i].retry_action = "ManualRetry"
        /\ before[i].payment_intent.status = "Failed"
        /\ pd[i].payment_attempt.attempt_id = 2
        /\ payment_intent.active_attempt = 2

(* C7, as stated: after a successful confirmation that kept its attempt,   *)
(* every merged optional field is stored with the request's value when the *)
(* request supplied one and with the value stored before otherwise.        *)
C7_Original ==
    \A i \in Invocations :
        ( /\ Succeeded(i)
          /\ pd[i].payment_attempt.attempt_id
               = before[i].payment_intent.active_attempt )
        => LET id == pd[i].payment_attempt.attempt_id IN
           /\ \A f \in IntentMergeFields :
                payment_intent.fields[f] =
                    Or(req[i].fields[f], before[i].payment_intent.fields[f])
           /\ \A f \in AttemptMergeFields :
                payment_attempts[id].fields[f] =
                    Or(req[i].fields[f], before[i].payment_attempts[id].fields[f])

(* C8, as stated: when a task of the second fetch batch has failed,        *)
(* get_trackers does not return a working record.                          *)
C8_Original ==
    \A i \in Invocations :
        (\E t \in Stage2Tasks : Failed(i, t))
        => /\ res[i].get_trackers # "ok"
           /\ pc[i] \notin {"got", "persist"}

(* C9, as stated: when one of the three persist writes has failed,         *)
(* update_trackers does not return the updated working record.             *)
C9_Original ==
    \A i \in Invocations :
        (\E t \in PersistTasks : Failed(i, t))
        => res[i].update_trackers # "ok"

(* C10, as stated: when a persist write, and no other, has answered        *)
(* not-found, update_trackers fails with PaymentNotFound.                  *)
C10_Original ==
    \A i \in Invocations :
        ( /\ Finished(i)
          /\ \E t \in PersistTasks :
                /\ task[i][t] = "notfound"
                /\ \A u \in PersistTasks \ {t} : task[i][u] = "ok" )
        => res[i].update_trackers = "PaymentNotFound"

Stage2Writes ==
    {"shipping_find_or_create", "billing_find_or_create", "config_upsert",
     "attempt_insert", "intent_attempt_update", "connector_response_insert"}

PersistWrites == {"attempt_update", "intent_update", "customer_update"}

(* C11: a task of the second fetch batch has started, or a store write of  *)
(* the fetch stage has been issued, only when the intent find and the      *)
(* mandate/token resolution have both completed successfully and the       *)
(* intent has passed the access, status and client-secret checks; a        *)
(* persist task has started, or a persist write has been issued, only when *)
(* every task of the fetch stage has completed and get_trackers returned.  *)
C11_StagesInProgramOrder ==
    \A i \in Invocations :
        /\ ( \/ \E t \in Stage2Tasks : task[i][t] # "idle"
             \/ \E w \in Stage2Writes : writes[i][w] > 0 )
           => /\ \A t \in Stage1Tasks : task[i][t] = "ok"
              /\ before[i].payment_intent.status \notin C1_Statuses
              /\ req[i].auth = "ok"
        /\ ( \/ \E t \in PersistTasks : task[i][t] # "idle"
             \/ \E w \in PersistWrites : writes[i][w] > 0 )
           => /\ \A t \in Stage1Tasks \cup Stage2Tasks : task[i][t] # "running"
              /\ res[i].get_trackers = "ok"

\* the persist writes are in flight after a fetch batch in which the config
\* upsert failed
C11_Witness ==
    \E i \in Invocations :
        /\ task[i]["ut_payment_intent_fut"] = "running"
        /\ task[i]["ut_payment_attempt_fut"] = "ok"
        /\ task[i]["config_update_fut"] = "error"
        /\ task[i]["shipping_address_fut"] = "ok"

\* the error the result of a failed task carries
FailureOf(i, t) ==
    CASE t = "payment_intent_fut" -> "PaymentNotFound"
      [] t = "mandate_details_fut" -> "MandateError"
      [] OTHER -> TaskError(i, t)

\* what the stage that joined the batch returned
BatchResult(i, b) ==
    IF b = "persist" THEN res[i].update_trackers ELSE res[i].get_trackers

(* C12, as stated: when several tasks of one batch have failed, the stage  *)
(* returns the error of the task that failed first in time.                *)
C12_Original ==
    \A i \in Invocations : \A b \in Batches :
        ( /\ Finished(i)
          /\ first_failed[i][b] # None
          /\ Cardinality({t \in Tasks : BatchOf(t) = b /\ Failed(i, t)}) > 1 )
        => BatchResult(i, b) = FailureOf(i, first_failed[i][b])

(* C13, as stated: in a state where a task of a batch has completed with   *)
(* an error, the stage can return, also while sibling tasks have not       *)
(* completed.                                                              *)
C13_Original ==
    \A i \in Invocations :
        /\ (pc[i] = "stage1" /\ \E t \in Stage1Tasks : Failed(i, t))
           => ENABLED JoinStage1(i)
        /\ (pc[i] = "stage2" /\ \E t \in Stage2Tasks : Failed(i, t))
           => ENABLED JoinStage2(i)
        /\ (pc[i] = "persist" /\ \E t \in PersistTasks : Failed(i, t))
           => ENABLED JoinPersist(i)

\* the request passes validate_request and the access, client-secret and
\* card-data checks of get_trackers
WellFormed(i) == req[i].defects = {} /\ req[i].auth = "ok" /\ req[i].valid

\* no store call of the run has failed
EveryStoreCallSucceeded == faults = MaxFaults

NoPmNoToken(i) ==
    /\ pc[i] # "off"
    /\ req[i].fields["payment_method"] = None
    /\ req[i].token = None
    /\ before[i].payment_attempts[before[i].payment_intent.active_attempt]
          .payment_token = None

C16_Statuses ==
    {"RequiresCustomerAction", "RequiresMerchantAction",
     "RequiresPaymentMethod", "RequiresConfirmation"}

(* C16: an invocation on an intent whose status is outside                  *)
(* RequiresCustomerAction, RequiresMerchantAction, RequiresPaymentMethod   *)
(* and RequiresConfirmation, requested without the manual-retry signal,    *)
(* inserts no attempt row and leaves the active attempt alone, and when    *)
(* get_trackers has returned the working record, it is on the attempt that *)
(* was active before.                                                      *)
C16_NoRetrySignalModifiesInPlace ==
    \A i \in Invocations :
        ( /\ pc[i] # "off"
          /\ before[i].payment_intent.status \notin C16_Statuses
          /\ req[i].retry_action # "ManualRetry" )
        => /\ writes[i]["attempt_insert"] = 0
           /\ writes[i]["intent_attempt_update"] = 0
           /\ ExistingAttempts(payment_attempts)
                = ExistingAttempts(before[i].payment_attempts)
           /\ payment_intent.active_attempt = before[i].payment_intent.active_attempt
           /\ res[i].get_trackers = "ok"
                => /\ pd[i].attempt_type = "SameOld"
                   /\ pd[i].payment_attempt.attempt_id
                        = before[i].payment_intent.active_attempt

\* a Failed intent confirmed with retry_action Requeue
C16_Witness ==
    \E i \in Invocations :
        /\ Succeeded(i)
        /\ before[i].payment_intent.status = "Failed"
        /\ req[i].retry_action = "Requeue"
        /\ pd[i].payment_attempt.attempt_id = 1

C18_ValidateRequestIsPure ==
    \A i \in Invocations :
        ( /\ res[i].validate_request # "none"
          /\ pc[i] \in {"validated", "done"}
          /\ res[i].get_trackers = "none" )
        => /\ payment_intent = before[i].payment_intent
           /\ payment_attempts = before[i].payment_attempts
           /\ addresses = {"addr_old"}
           /\ configs = {}
           /\ customer = [exists |-> TRUE, updated |-> FALSE]
           /\ NoWrites(i)
           /\ \A t \in Tasks : task[i][t] = "idle"
           /\ EveryStoreCallSucceeded

\* a request of another merchant, refused
C18_Witness ==
    \E i \in Invocations :
        /\ Finished(i)
        /\ req[i].defects = {"merchant_id"}
        /\ res[i].validate_request = "InvalidDataFormat"

(* C19: a connector-response lookup has been issued only when the attempt  *)
(* type is fixed, and it was given the attempt of that type: the attempt   *)
(* that was active before for SameOld, the attempt row the invocation      *)
(* created for New.                                                        *)
C19_LookupUsesDecidedAttempt ==
    \A i \in Invocations :
        /\ ( \/ task[i]["connector_response_fut"] # "idle"
             \/ pc[i] = "connresp"
             \/ pd[i].connector_response # NoRow )
           => pd[i].attempt_type # None
        /\ pd[i].connector_response # NoRow
           => LET id == pd[i].connector_response.attempt_id IN
              IF pd[i].attempt_type = "New"
              THEN /\ id # before[i].payment_intent.active_attempt
                   /\ before[i].payment_attempts[id] = NoRow
                   /\ payment_attempts[id] # NoRow
                   /\ writes[i]["attempt_insert"] = 1
              ELSE id = before[i].payment_intent.active_attempt

\* the lookup of the first arm has answered while the attempt find is still
\* in flight
C19_Witness ==
    \E i \in Invocations :
        /\ pd[i].attempt_type = "SameOld"
        /\ pd[i].connector_response = [attempt_id |-> 1]
        /\ task[i]["payment_attempt_fut"] = "running"

(* C20, as stated: the connector choice is the routing of the request when *)
(* it has one, or else the connector chosen for the payment before, or     *)
(* else the merchant's routing algorithm.                                  *)
C20_Original ==
    \A i \in Invocations :
        pd[i].connector_choice # None
        => pd[i].connector_choice =
             Or(req[i].routing,
                Or(before[i].payment_attempts[before[i].payment_intent.active_attempt]
                     .connector,
                   "routing_algorithm"))

C22_Original ==
    \A i \in Invocations :
        ( /\ res[i].get_trackers = "ok"
          /\ req[i].setup_mandate # NoRow
          /\ req[i].setup_mandate.mandate_type # None )
        => pd[i].setup_mandate.mandate_type = req[i].setup_mandate.mandate_type

(* C23, as stated: when get_trackers has failed one of the request checks  *)
(* it makes after the versioning step, the stored intent and attempts are  *)
(* the ones from before.                                                   *)
C23_Original ==
    \A i \in Invocations :
        ( /\ Finished(i)
          /\ res[i].get_trackers \in {"InvalidRequestData", "PmOrTokenNotGiven"} )
        => /\ payment_intent = before[i].payment_intent
           /\ payment_attempts = before[i].payment_attempts

(* C24: the config upsert has been issued only for a request with inline   *)
(* merchant connector details, after the stage-1 results and the access,   *)
(* status and client-secret checks; once the config task of such a request *)
(* has completed the upsert was issued exactly once; for a request without *)
(* such details no upsert is issued and the config store stays empty.      *)
C24_ConfigUpsertIffInlineDetails ==
    \A i \in Invocations :
        /\ writes[i]["config_upsert"] > 0
           => /\ req[i].merchant_connector_details
              /\ \A t \in Stage1Tasks : task[i][t] = "ok"
              /\ before[i].payment_intent.status \notin C1_Statuses
              /\ req[i].auth = "ok"
        /\ ( /\ req[i].merchant_connector_details
             /\ task[i]["config_update_fut"] \in {"ok", "error"} )
           => writes[i]["config_upsert"] = 1
        /\ (pc[i] # "off" /\ ~req[i].merchant_connector_details)
           => writes[i]["config_upsert"] = 0 /\ configs = {}

C24_Witness ==
    \E i \in Invocations :
        /\ req[i].merchant_connector_details
        /\ writes[i]["config_upsert"] = 1
        /\ configs = {"creds"}
        /\ task[i]["payment_attempt_fut"] = "running"

\* get_trackers has returned the error of a task of the second batch
Stage2Failed(i) ==
    /\ Finished(i)
    /\ res[i].get_trackers \notin {"none", "ok"}
    /\ \E t \in Stage2Tasks \ {"config_update_fut"} : Failed(i, t)

(* C25: after get_trackers has returned the error of a task of the second  *)
(* batch, a config entry upserted and an address created by tasks of that  *)
(* batch are still in the store.                                           *)
C25_NoCompensation ==
    \A i \in Invocations :
        Stage2Failed(i)
        => /\ ( /\ req[i].merchant_connector_details
                /\ task[i]["config_update_fut"] = "ok" )
              => "creds" \in configs
           /\ (req[i].address /\ task[i]["shipping_address_fut"] = "ok")
              => "ship_new" \in addresses
           /\ (req[i].address /\ task[i]["billing_address_fut"] = "ok")
              => "bill_new" \in addresses

\* the attempt find failed after the config upsert and the shipping address
\* were applied
C25_Witness ==
    \E i \in Invocations :
        /\ Stage2Failed(i)
        /\ first_failed[i]["stage2"] = "payment_attempt_fut"
        /\ req[i].merchant_connector_details /\ req[i].address
        /\ task[i]["config_update_fut"] = "ok"
        /\ task[i]["shipping_address_fut"] = "ok"
        /\ "creds" \in configs /\ "ship_new" \in addresses

(* C26: no step issues a store operation a second time: a task that has    *)
(* completed, with a result or with an error, is never run again, and no   *)
(* store write of an invocation is issued more than once.                  *)
C26_NoOperationReissued ==
    [][\A i \in Invocations :
          /\ \A t \in Tasks :
                task[i][t] \in {"ok", "notfound", "error"}
                => task'[i][t] = task[i][t]
          /\ \A w \in WriteOps : writes'[i][w] <= 1]_vars

\* the intent update failed and was left at that, with failures to spare
C26_Witness ==
    \E i \in Invocations :
        /\ Finished(i)
        /\ task[i]["ut_payment_intent_fut"] = "error"
        /\ writes[i]["intent_update"] = 1
        /\ res[i].update_trackers = "InternalServerError"
        /\ faults > 0

(* C27: the requeue flag validate_request returns is true for the retry    *)
(* action Requeue and false for an absent and for every other one.         *)
C27_RequeueFlag ==
    \A i \in Invocations :
        res[i].validate_request = "ok"
        => res[i].requeue = (req[i].retry_action = "Requeue")

C27_Witness ==
    \E i \in Invocations :
        /\ res[i].validate_request = "ok"
        /\ req[i].retry_action = "Requeue"
        /\ res[i].requeue

\* the three tasks of the persist batch have completed
PersistCompleted(i) ==
    \A t \in PersistTasks : task[i][t] \in {"ok", "notfound", "error"}

(* C28: when the persist tasks have completed, the customer update was     *)
(* issued exactly when there is a customer and a customer patch; the       *)
(* attempt update and the intent update were each issued once, and without *)
(* a customer update the customer row is the one from before.              *)
C28_CustomerUpdateIffBoth ==
    \A i \in Invocations :
        /\ writes[i]["customer_update"] > 0
           => req[i].customer /\ upd[i].updated_customer
        /\ PersistCompleted(i)
           => /\ writes[i]["customer_update"] =
                    IF req[i].customer /\ upd[i].updated_customer THEN 1 ELSE 0
              /\ writes[i]["attempt_update"] = 1
              /\ writes[i]["intent_update"] = 1
              /\ writes[i]["customer_update"] = 0
                    => customer = [exists |-> TRUE, updated |-> FALSE]

\* a customer without a customer patch: two writes
C28_Witness ==
    \E i \in Invocations :
        /\ Succeeded(i)
        /\ req[i].customer /\ ~upd[i].updated_customer
        /\ writes[i]["customer_update"] = 0
        /\ writes[i]["attempt_update"] = 1 /\ writes[i]["intent_update"] = 1

(* C29: when the intent find has failed, with not-found or with any other  *)
(* store error, no task of the second batch is ever spawned and no store   *)
(* write issued, and get_trackers returns PaymentNotFound.                 *)
C29_IntentFindFailureIsPaymentNotFound ==
    \A i \in Invocations :
        Failed(i, "payment_intent_fut")
        => /\ \A t \in Stage2Tasks \cup PersistTasks : task[i][t] = "idle"
           /\ NoWrites(i)
           /\ res[i].get_trackers \in {"none", "PaymentNotFound"}
           /\ Finished(i) => res[i].get_trackers = "PaymentNotFound"

\* a store error other than not-found, on an intent that could be confirmed
C29_Witness ==
    \E i \in Invocations :
        /\ Finished(i)
        /\ task[i]["payment_intent_fut"] = "error"
        /\ before[i].payment_intent.status = "RequiresConfirmation"
        /\ res[i].get_trackers = "PaymentNotFound"

\* the error code the attempt held before the invocation, None for an
\* attempt it created
ErrorFieldsBefore(i, id) ==
    IF before[i].payment_attempts[id] = NoRow
    THEN [code |-> None, message |-> None]
    ELSE [code |-> before[i].payment_attempts[id].error_code,
          message |-> before[i].payment_attempts[id].error_message]

(* C30: the attempt patch carries the fraud status and the fraud reason as *)
(* error code and message when the suggestion is FrmCancelTransaction and  *)
(* there is a fraud message, and otherwise neither; an attempt updated     *)
(* with a patch that carries none has the error fields it had before.      *)
C30_ErrorFieldsOnlyOnCancel ==
    \A i \in Invocations :
        upd[i].attempt_patch # NoRow
        => LET p == upd[i].attempt_patch
               id == pd[i].payment_attempt.attempt_id
               row == payment_attempts[id]
           IN IF upd[i].frm_suggestion = "FrmCancelTransaction" /\ upd[i].frm_message
              THEN /\ p.error_code = "frm_status"
                   /\ p.error_message = "frm_reason"
                   /\ task[i]["ut_payment_attempt_fut"] = "ok"
                        => /\ row.error_code = "frm_status"
                           /\ row.error_message = "frm_reason"
              ELSE /\ p.error_code = "Keep"
                   /\ p.error_message = "Keep"
                   /\ task[i]["ut_payment_attempt_fut"] = "ok"
                        => /\ row.error_code = ErrorFieldsBefore(i, id).code
                           /\ row.error_message = ErrorFieldsBefore(i, id).message

\* a cancel without a fraud message, on an attempt that held an error
C30_Witness ==
    \E i \in Invocations :
        /\ Succeeded(i)
        /\ upd[i].frm_suggestion = "FrmCancelTransaction"
        /\ ~upd[i].frm_message
        /\ payment_attempts[1].status = "Failure"
        /\ payment_attempts[1].error_code = "old"

\* the stages of an invocation, in the order the pipeline calls them
Stages ==
    <<"validate_request", "get_trackers", "get_connector", "make_pm_data",
      "update_trackers">>

\* the invocation returned once: every stage up to one returned ok, that one
\* returned ok as the last stage or an error, and no later stage was called
ExactlyOneOutcome(i) ==
    \E k \in DOMAIN Stages :
        /\ \A j \in 1..(k - 1) : res[i][Stages[j]] = "ok"
        /\ \A j \in (k + 1)..Len(Stages) : res[i][Stages[j]] = "none"
        /\ res[i][Stages[k]] # "none"
        /\ res[i][Stages[k]] = "ok" =>
              /\ k = Len(Stages)
              /\ pd[i].payment_intent # NoRow
              /\ pd[i].payment_attempt # NoRow

(* C31: under the fairness of SpecLive, every Confirm invocation that has    *)
(* been called eventually terminates, whatever store calls fail: a batch    *)
(* whose tasks have been spawned is eventually joined, and a terminated     *)
(* invocation has ended either in success, with a working record, or in the *)
(* error of exactly one stage.                                              *)
C31_ConfirmTerminates ==
    /\ \A i \in Invocations : (pc[i] = "start") ~> Finished(i)
    /\ \A i \in Invocations :
         \A b \in {"stage1", "stage2", "persist"} : (pc[i] = b) ~> (pc[i] # b)
    /\ [](\A i \in Invocations : Finished(i) => ExactlyOneOutcome(i))

\* an invocation that ended with the error of the persist join after a
\* failed write
C31_Witness ==
    \E i \in Invocations :
        /\ Finished(i)
        /\ res[i].update_trackers = "InternalServerError"
        /\ \E t \in PersistTasks : Failed(i, t)

\* the caller of the role operation is its target
SelfTargeted ==
    \/ /\ role_op.op = "update_user_role"
       /\ role_op.user_id = role_op.user_from_token.user_id
    \/ /\ role_op.op = "delete_user_role"
       /\ role_op.user_from_db = role_op.user_from_token.user_id

\* the user records and user-role rows are the ones from before the operation
RoleStoreUnchanged ==
    /\ users = role_op.before.users
    /\ user_roles = role_op.before.user_roles

(* C32, as stated: a role operation whose target is its caller changes no   *)
(* user record and no user-role row, and fails, update_user_role with       *)
(* InvalidRoleOperation and delete_user_role with InvalidDeleteOperation.   *)
C32_Original ==
    SelfTargeted =>
        /\ RoleStoreUnchanged
        /\ role_op.pc = "done" =>
             role_op.result = IF role_op.op = "update_user_role"
                              THEN "InvalidRoleOperation"
                              ELSE "InvalidDeleteOperation"

(* C32, amended: a role operation whose target is its caller changes no     *)
(* user record and no user-role row, and fails: delete_user_role with       *)
(* InvalidDeleteOperation, update_user_role with InvalidRoleOperation when  *)
(* the requested role id passes validate_role_id and with that check's      *)
(* error when it does not.                                                  *)
C32_SelfTargetRefused ==
    SelfTargeted =>
        /\ RoleStoreUnchanged
        /\ role_op.pc = "done" =>
             role_op.result =
                IF role_op.op = "delete_user_role" THEN "InvalidDeleteOperation"
                ELSE IF role_op.role_id \in ValidRoleIds THEN "InvalidRoleOperation"
                ELSE "InvalidRoleId"

\* a caller who holds a role at their merchant asked for another role for
\* themselves and was refused
C32_Witness ==
    /\ role_op.pc = "done"
    /\ role_op.op = "update_user_role"
    /\ role_op.user_id = role_op.user_from_token.user_id
    /\ role_op.role_id \in ValidRoleIds
    /\ \E r \in user_roles :
         /\ r.user_id = role_op.user_id
         /\ r.merchant_id = role_op.user_from_token.merchant_id
         /\ r.role_id # role_op.role_id
    /\ role_op.result = "InvalidRoleOperation"

(* C33, as stated: in every state of delete_user_role every user-role row   *)
(* refers to an existing user record, and a user record has been deleted    *)
(* only if the role for the caller's merchant was the user's only role.     *)
C33_Original ==
    /\ \A r \in user_roles : r.user_id \in users
    /\ users # role_op.before.users =>
         {r \in role_op.before.user_roles : r.user_id = role_op.user_from_db}
           = {r \in role_op.before.user_roles :
                /\ r.user_id = role_op.user_from_db
                /\ r.merchant_id = role_op.user_from_token.merchant_id}

(* C34: the response of deep_health_check is 200 or 500, it is 200 exactly  *)
(* when the database check and the Redis check both succeeded, and no       *)
(* response is built before the Redis check has run, whatever the database  *)
(* check answered; the body carries the two status strings.                 *)
C34_StatusReflectsBothChecks ==
    /\ health.pc \in {"respond", "done"} =>
         /\ health.db_result # None
         /\ health.redis_result # None
    /\ health.pc = "done" =>
         /\ health.response.status \in {200, 500}
         /\ health.response.status = 200
              <=> (health.db_result = "ok" /\ health.redis_result = "ok")
         /\ health.response.database =
              IF health.db_result = "ok" THEN "Health is good"
              ELSE DbErrorString(health.db_result)
         /\ health.response.redis =
              IF health.redis_result = "ok" THEN "Health is good"
              ELSE RedisErrorString(health.redis_result)

\* the database check failed, the Redis check ran after it and succeeded
C34_Witness ==
    /\ health.pc = "done"
    /\ health.db_result = "DBWriteError"
    /\ health.redis_result = "ok"
    /\ health.response.status = 500

\* the first arm of `match payment_intent.status` has been entered: its
\* connector-response lookup has been spawned
SameOldArmEntered(i) == task[i]["connector_response_fut"] # "idle"

(* C35: the first arm of the match in get_trackers is entered exactly on    *)
(* the intent statuses RequiresCustomerAction, RequiresPaymentMethod and    *)
(* RequiresConfirmation: an invocation that has entered it found one of     *)
(* them, never RequiresMerchantAction, and an invocation that has passed    *)
(* the stage-1 checks on one of them has entered it.                        *)
C35_SameOldArmStatuses ==
    \A i \in Invocations :
        /\ SameOldArmEntered(i) =>
             before[i].payment_intent.status \in C5_Statuses
        /\ pc[i] = "stage2" =>
             (SameOldArmEntered(i) <=> pd[i].payment_intent.status \in C5_Statuses)
        /\ (pc[i] # "off" /\ before[i].payment_intent.status = "RequiresMerchantAction") =>
             /\ ~SameOldArmEntered(i)
             /\ pc[i] \in {"start", "validated", "stage1", "done"}
             /\ res[i].get_trackers # "ok"

\* a RequiresCustomerAction intent in the first arm
C35_Witness ==
    \E i \in Invocations :
        /\ pc[i] = "stage2"
        /\ SameOldArmEntered(i)
        /\ pd[i].payment_intent.status = "RequiresCustomerAction"
        /\ pd[i].attempt_type = "SameOld"

====
